---------------------------- MODULE Spec2Model ----------------------------
(***************************************************************************)
(* A model of jsonquery (src/jsonquery/__init__.py): the encoder that      *)
(* turns a JSON-like document into an attributed element tree              *)
(* (_build_element, _build_tree), the node selection of the XPath engine,  *)
(* and the decoder that turns selected elements back into values           *)
(* (_xml_to_json).                                                         *)
(*                                                                         *)
(* Python values are records with a field "kind" that holds the name of    *)
(* the value's type.  Text is a sequence of one-character strings, so that *)
(* str(), int() and float() are modelled by what they do to characters.    *)
(* A float is held as a whole number of tenths (15 is 1.5).                *)
(* An element is a record [tag, attrib, text, children]; an element of a   *)
(* tree is addressed by its path, the sequence of child positions that     *)
(* leads to it from the root (<<>> is the root).                           *)
(***************************************************************************)
EXTENDS Integers, Sequences, FiniteSets, TLC

VARIABLES
    data,               \* the document handed to from_json / query
    numpy_available,    \* what numpy_is_available() returns in this process
    tree,               \* the element tree built by from_json
    xpath_results,      \* the paths of the elements tree.xpath(path) returned
    converted_results,  \* what _xml_to_json returned (or the exception raised)
    pc                  \* position of the call: start, built, selected, done, failed

vars == <<data, numpy_available, tree, xpath_results, converted_results, pc>>

---------------------------------------------------------------------------
(* Bounds of the model *)

MaxLen == 2
MaxKeys == 2
MaxSel == 2

---------------------------------------------------------------------------
(* Python values *)

PyNone == [kind |-> "NoneType"]
PyStr(s) == [kind |-> "str", s |-> s]
PyInt(n) == [kind |-> "int", n |-> n]
PyFloat(t) == [kind |-> "float", n |-> t]
PyList(elems) == [kind |-> "list", elems |-> elems]
PyDict(items) == [kind |-> "dict", items |-> items]
PyObject(items) == [kind |-> "Obj", items |-> items]
PySlotted(items) == [kind |-> "Rec", items |-> items]
PyFunction == [kind |-> "function"]
PyBuiltin == [kind |-> "builtin_function_or_method"]
PyArray(of) == [kind |-> "ndarray", of |-> of]
Raised(exc) == [kind |-> "raise", exc |-> exc]
Item(k, v) == [key |-> k, value |-> v]

IsRaised(v) == v.kind = "raise"

\* type(value).__name__
TypeName(value) == value.kind

\* hasattr(value, "__dict__")
HasDict(value) == value.kind \in {"Obj", "function"}

\* isinstance(value, typing.Callable)
IsCallable(value) == value.kind \in {"function", "builtin_function_or_method"}

\* isinstance(value, abstract_collections.Mapping)
IsMapping(value) == value.kind = "dict"

IsSlotted(value) == value.kind = "Rec"

IsContainer(value) ==
    /\ value.kind # "str"
    /\ value.kind # "bytes"
    /\ value.kind \in {"dict", "list"}

IsBasicValue(value) == ~HasDict(value) /\ ~IsSlotted(value) /\ ~IsContainer(value)

---------------------------------------------------------------------------
(* str(), int() and float() *)

Digits == <<"0", "1", "2", "3", "4", "5", "6", "7", "8", "9">>

IsDigit(c) == \E d \in 1..10 : Digits[d] = c

DigitValue(c) == (CHOOSE d \in 1..10 : Digits[d] = c) - 1

RECURSIVE NatStr(_)
NatStr(n) == IF n < 10 THEN <<Digits[n + 1]>>
             ELSE NatStr(n \div 10) \o <<Digits[(n % 10) + 1]>>

\* str(n) of an int
IntStr(n) == IF n < 0 THEN <<"-">> \o NatStr(-n) ELSE NatStr(n)

\* str(x) of a float held as t tenths: repr keeps one decimal here
FloatStr(t) ==
    IF t < 0 THEN <<"-">> \o NatStr((-t) \div 10) \o <<".">> \o NatStr((-t) % 10)
    ELSE NatStr(t \div 10) \o <<".">> \o NatStr(t % 10)

\* str(value) of an atomic value
Str(value) ==
    CASE value.kind = "int" -> IntStr(value.n)
      [] value.kind = "float" -> FloatStr(value.n)
      [] value.kind = "str" -> value.s
      [] value.kind = "NoneType" -> <<"N", "o", "n", "e">>
      [] OTHER -> <<"<", "b", "u", "i", "l", "t", "-", "i", "n", ">">>

AllDigits(s) == Len(s) > 0 /\ \A i \in 1..Len(s) : IsDigit(s[i])

RECURSIVE DigitsValue(_)
DigitsValue(s) == IF Len(s) = 0 THEN 0
                  ELSE 10 * DigitsValue(SubSeq(s, 1, Len(s) - 1)) + DigitValue(s[Len(s)])

Unsigned(s) == IF Len(s) > 0 /\ s[1] \in {"-", "+"} THEN Tail(s) ELSE s

Sign(s) == IF Len(s) > 0 /\ s[1] = "-" THEN -1 ELSE 1

\* int(text): a Python int, or ValueError
ParseInt(s) ==
    IF AllDigits(Unsigned(s)) THEN PyInt(Sign(s) * DigitsValue(Unsigned(s)))
    ELSE Raised("ValueError")

DotAt(s) == IF \E i \in 1..Len(s) : s[i] = "."
            THEN CHOOSE i \in 1..Len(s) : s[i] = "." /\ \A j \in 1..(i - 1) : s[j] # "."
            ELSE 0

\* float(text): a Python float (in tenths), or ValueError.  Text with one
\* decimal digit or none is what str() produces for the values of the model.
ParseFloat(s) ==
    LET u == Unsigned(s)
        d == DotAt(u)
        whole == IF d = 0 THEN u ELSE SubSeq(u, 1, d - 1)
        frac == IF d = 0 THEN <<"0">> ELSE SubSeq(u, d + 1, Len(u))
    IN IF AllDigits(whole) /\ Len(frac) = 1 /\ IsDigit(frac[1])
       THEN PyFloat(Sign(s) * (10 * DigitsValue(whole) + DigitValue(frac[1])))
       ELSE Raised("ValueError")

---------------------------------------------------------------------------
(* Elements (the part of lxml's etree the code uses) *)

\* etree.Element(key): no attributes, no text, no children
Element(key) == [tag |-> key, attrib |-> <<>>, text |-> PyNone, children |-> <<>>]

HasAttr(element, name) == name \in DOMAIN element.attrib

\* element.get(name, default)
Get(element, name, default) ==
    IF HasAttr(element, name) THEN element.attrib[name] ELSE default

\* element.set(name, val)
Set(element, name, val) ==
    [element EXCEPT !.attrib =
        [a \in (DOMAIN element.attrib) \cup {name} |->
            IF a = name THEN val ELSE element.attrib[a]]]

\* element.append(node) for each node of nodes
Append_(element, nodes) == [element EXCEPT !.children = @ \o nodes]

---------------------------------------------------------------------------
(* The encoder: _build_element and _build_tree *)

\* The result of a call that either returns a sequence of elements or raises
Built(elements) == [exc |-> "none", elements |-> elements]
Failed(exc) == [exc |-> exc, elements |-> <<>>]

\* found_keys[tag] after the first loop over found_nodes
FoundKeys(found_nodes, tag) ==
    Cardinality({j \in 1..Len(found_nodes) : found_nodes[j].tag = tag})

\* key_indices[node.tag] when the second loop reaches found_nodes[i]
KeyIndices(found_nodes, i) ==
    Cardinality({j \in 1..(i - 1) : found_nodes[j].tag = found_nodes[i].tag})

\* A variant that indexes every node, also one whose tag was found once
IndexRepeatedAll(found_nodes) ==
    [i \in 1..Len(found_nodes) |->
        IF FoundKeys(found_nodes, found_nodes[i].tag) >= 1
        THEN Set(Set(found_nodes[i], "list_member", "True"),
                 "index", IntStr(KeyIndices(found_nodes, i)))
        ELSE found_nodes[i]]

\* The second loop of the Mapping branch: nodes whose tag was found more
\* than once become list members, indexed in the order they were found
IndexRepeated(found_nodes) ==
    [i \in 1..Len(found_nodes) |->
        IF FoundKeys(found_nodes, found_nodes[i].tag) > 1
        THEN Set(Set(found_nodes[i], "list_member", "True"),
                 "index", IntStr(KeyIndices(found_nodes, i)))
        ELSE found_nodes[i]]

\* The Container branch's inner loop: every element built for the
\* sub_value at position list_index (0-based) becomes a list member
MarkListMembers(sub_elements, list_index) ==
    [i \in 1..Len(sub_elements) |->
        Set(Set(sub_elements[i], "list_member", "True"), "index", IntStr(list_index))]

\* getattr(value, name): the attribute's value, or AttributeError
GetAttr(value, name) ==
    IF /\ value.kind \in {"Obj", "Rec"}
       /\ \E i \in 1..Len(value.items) : value.items[i].key = name
    THEN value.items[CHOOSE i \in 1..Len(value.items) : value.items[i].key = name].value
    ELSE Raised("AttributeError")

\* value.__dict__.items(): a function has no attributes of its own
Dict_(value) == IF value.kind = "Obj" THEN value.items ELSE <<>>

\* The element of a composite value, before its children are appended
Composite(key, value) ==
    Set(Set(Element(key), "datatype", TypeName(value)), "list_member", "False")

\* The element of an atomic value
Leaf(key, value) ==
    [Composite(key, value) EXCEPT !.text = PyStr(Str(value))]

RECURSIVE BuildElement(_, _)
RECURSIVE BuildItems(_, _)
RECURSIVE BuildSequence(_, _, _)
RECURSIVE BuildFields(_, _)
RECURSIVE BuildSlots(_, _, _)

\* for sub_key, sub_value in value.items(): the elements of items[i..]
BuildItems(items, i) ==
    IF i > Len(items) THEN Built(<<>>)
    ELSE LET sub == BuildElement(items[i].key, items[i].value)
         IN IF sub.exc # "none" THEN sub
            ELSE LET rest == BuildItems(items, i + 1)
                 IN IF rest.exc # "none" THEN rest
                    ELSE Built(sub.elements \o rest.elements)

\* for sub_value in value: the elements of elems[i..], list_index = i - 1
BuildSequence(key, elems, i) ==
    IF i > Len(elems) THEN Built(<<>>)
    ELSE LET sub == BuildElement(key, elems[i])
         IN IF sub.exc # "none" THEN sub
            ELSE LET rest == BuildSequence(key, elems, i + 1)
                 IN IF rest.exc # "none" THEN rest
                    ELSE Built(MarkListMembers(sub.elements, i - 1) \o rest.elements)

\* for sub_key, sub_value in value.__dict__.items(): callables are skipped
BuildFields(items, i) ==
    IF i > Len(items) THEN Built(<<>>)
    ELSE IF IsCallable(items[i].value) THEN BuildFields(items, i + 1)
    ELSE LET sub == BuildElement(items[i].key, items[i].value)
         IN IF sub.exc # "none" THEN sub
            ELSE LET rest == BuildFields(items, i + 1)
                 IN IF rest.exc # "none" THEN rest
                    ELSE Built(sub.elements \o rest.elements)

\* for slotted_variable in keys: value is the loop's own variable, which
\* the loop overwrites with the attribute it has just read
BuildSlots(keys, i, value) ==
    IF i > Len(keys) THEN Built(<<>>)
    ELSE LET read == GetAttr(value, keys[i])
         IN IF IsRaised(read) THEN Failed(read.exc)
            ELSE IF IsCallable(read) THEN BuildSlots(keys, i + 1, read)
            ELSE LET sub == BuildElement(keys[i], read)
                 IN IF sub.exc # "none" THEN sub
                    ELSE LET rest == BuildSlots(keys, i + 1, read)
                         IN IF rest.exc # "none" THEN rest
                            ELSE Built(sub.elements \o rest.elements)

SlotNames(value) == [i \in 1..Len(value.items) |-> value.items[i].key]

BuildElement(key, value) ==
    IF IsBasicValue(value) THEN Built(<<Leaf(key, value)>>)
    ELSE IF IsMapping(value) THEN
        LET found == BuildItems(value.items, 1)
        IN IF found.exc # "none" THEN found
           ELSE Built(<<Append_(Composite(key, value), IndexRepeated(found.elements))>>)
    ELSE IF IsContainer(value) THEN BuildSequence(key, value.elems, 1)
    ELSE IF HasDict(value) THEN
        LET nodes == BuildFields(Dict_(value), 1)
        IN IF nodes.exc # "none" THEN nodes
           ELSE Built(<<Append_(Composite(key, value), nodes.elements)>>)
    ELSE IF IsSlotted(value) THEN
        LET nodes == BuildSlots(SlotNames(value), 1, value)
        IN IF nodes.exc # "none" THEN nodes
           ELSE Built(<<Append_(Composite(key, value), nodes.elements)>>)
    ELSE Failed("ValueError")

\* _build_tree(data): the root element, or the exception of _build_element
BuildTree(document) ==
    LET nodes == BuildItems(document.items, 1)
    IN IF nodes.exc # "none" THEN nodes
       ELSE Built(<<Append_(Element("root"), nodes.elements)>>)

---------------------------------------------------------------------------
(* Elements of a tree, by path *)

RECURSIVE NodeAt(_, _)
NodeAt(element, path) ==
    IF path = <<>> THEN element
    ELSE NodeAt(element.children[Head(path)], Tail(path))

\* element.getchildren() for the element at path
GetChildren(t, path) ==
    [i \in 1..Len(NodeAt(t, path).children) |-> path \o <<i>>]

\* The path of element.getparent(); the root has no parent
ParentPath(path) == SubSeq(path, 1, Len(path) - 1)

RECURSIVE PathsBelow(_, _)
PathsBelow(element, path) ==
    {path} \cup UNION {PathsBelow(element.children[i], path \o <<i>>) :
                           i \in 1..Len(element.children)}

\* Every element of the tree t
Paths(t) == PathsBelow(t, <<>>)

\* A variant that marks the node as the encoder marks a list member, index included
MarkFoundNodeWithIndex(found_node) ==
    Set(Set(found_node, "list_member", "True"), "index", <<"0">>)

\* found_node.set("list_member", str(True))
MarkFoundNode(found_node) == Set(found_node, "list_member", "True")

\* The tree after the decoder has marked the elements at the paths marked
RECURSIVE SetListMember(_, _, _)
SetListMember(element, path, marked) ==
    LET here == IF path \in marked THEN MarkFoundNode(element) ELSE element
    IN [here EXCEPT !.children =
           [i \in 1..Len(element.children) |->
               SetListMember(element.children[i], path \o <<i>>, marked)]]

---------------------------------------------------------------------------
(* The decoder: _xml_to_json *)

\* What a call has done when it returns or raises: its result (or the
\* exception) and the elements it has set list_member on
Ret(result, marked) == [result |-> result, marked |-> marked]

\* The keys of actual_values in insertion order: the tags of nodes[1..n],
\* each at its first occurrence
RECURSIVE TagOrder(_, _, _)
TagOrder(t, nodes, n) ==
    IF n = 0 THEN <<>>
    ELSE LET before == TagOrder(t, nodes, n - 1)
             tag == NodeAt(t, nodes[n]).tag
         IN IF \E i \in 1..Len(before) : before[i] = tag THEN before
            ELSE Append(before, tag)

\* The nodes of one tag, in the order given
RECURSIVE WithTag(_, _, _, _)
WithTag(t, nodes, tag, i) ==
    IF i > Len(nodes) THEN <<>>
    ELSE IF NodeAt(t, nodes[i]).tag = tag
         THEN <<nodes[i]>> \o WithTag(t, nodes, tag, i + 1)
         ELSE WithTag(t, nodes, tag, i + 1)

\* actual_values after the first loop: per tag the node, or the list of nodes
ActualValues(t, nodes) ==
    LET tags == TagOrder(t, nodes, Len(nodes))
    IN [g \in 1..Len(tags) |->
           LET similar_nodes == WithTag(t, nodes, tags[g], 1)
           IN [tag |-> tags[g],
               is_list |-> Len(similar_nodes) > 1,
               nodes |-> similar_nodes]]

\* A variant that reads the index of the node itself
SortKeyOwnIndex(t, path) ==
    LET n == NodeAt(t, path)
    IN IF HasAttr(n, "index") THEN ParseInt(n.attrib["index"]) ELSE PyInt(0)

\* int(n.getparent().get("index", 0)): the sort key of the node at path
SortKey(t, path) ==
    IF path = <<>> THEN Raised("AttributeError")
    ELSE LET parent == NodeAt(t, ParentPath(path))
         IN IF HasAttr(parent, "index") THEN ParseInt(parent.attrib["index"])
            ELSE PyInt(0)

\* sorted(found_nodes, key=...): stable, or the exception of the first key that raises
Sorted(t, found_nodes) ==
    LET n == Len(found_nodes)
        keys == [i \in 1..n |-> SortKey(t, found_nodes[i])]
        bad == {i \in 1..n : IsRaised(keys[i])}
        rank(i) == Cardinality({j \in 1..n :
                       \/ keys[j].n < keys[i].n
                       \/ keys[j].n = keys[i].n /\ j <= i})
    IN IF bad # {} THEN keys[CHOOSE i \in bad : \A j \in bad : i <= j]
       ELSE PyList([r \in 1..n |-> found_nodes[CHOOSE i \in 1..n : rank(i) = r]])

\* The second loop, from group g on: mark the nodes of each repeated tag,
\* then sort them.  Returns the groups with their nodes sorted, or raises.
RECURSIVE SortGroups(_, _, _)
SortGroups(t, groups, g) ==
    IF g > Len(groups) THEN Ret(PyList(<<>>), {})
    ELSE IF ~groups[g].is_list THEN
        LET rest == SortGroups(t, groups, g + 1)
        IN IF IsRaised(rest.result) THEN rest
           ELSE Ret(PyList(<<groups[g]>> \o rest.result.elems), rest.marked)
    ELSE
        LET marked == {groups[g].nodes[i] : i \in 1..Len(groups[g].nodes)}
            sorted == Sorted(t, groups[g].nodes)
        IN IF IsRaised(sorted) THEN Ret(sorted, marked)
           ELSE LET rest == SortGroups(t, groups, g + 1)
                IN IF IsRaised(rest.result) THEN Ret(rest.result, marked \cup rest.marked)
                   ELSE Ret(PyList(<<[groups[g] EXCEPT !.nodes = sorted.elems]>>
                                       \o rest.result.elems),
                            marked \cup rest.marked)

\* float(element.text)
FloatOfText(element) ==
    IF element.text.kind = "str" THEN ParseFloat(element.text.s) ELSE Raised("TypeError")

\* int(value.text)
IntOfText(element) ==
    IF element.text.kind = "str" THEN ParseInt(element.text.s) ELSE Raised("TypeError")

\* results when len(results) == 1 is unwrapped; otherwise numpy wraps it when available
Collapse(results) ==
    IF Len(results) = 1 THEN results[1].value
    ELSE IF numpy_available THEN PyArray(PyDict(results))
    ELSE PyDict(results)

RECURSIVE XmlToJson(_, _)
RECURSIVE DecodeList(_, _, _)
RECURSIVE DecodeDict(_, _, _, _)
RECURSIVE DecodeGroups(_, _, _)

\* for element in value: the decoded members of a repeated tag, from member i on
DecodeList(t, members, i) ==
    IF i > Len(members) THEN Ret(PyList(<<>>), {})
    ELSE LET element == NodeAt(t, members[i])
             datatype == Get(element, "datatype", "None")
             children == GetChildren(t, members[i])
             one == IF Len(children) > 0 THEN XmlToJson(t, children)
                    ELSE IF datatype = "float" THEN Ret(FloatOfText(element), {})
                    ELSE IF datatype = "int" THEN Ret(FloatOfText(element), {})
                    ELSE Ret(element.text, {})
         IN IF IsRaised(one.result) THEN one
            ELSE LET rest == DecodeList(t, members, i + 1)
                 IN IF IsRaised(rest.result) THEN Ret(rest.result, one.marked \cup rest.marked)
                    ELSE Ret(PyList(<<one.result>> \o rest.result.elems),
                             one.marked \cup rest.marked)

\* for nested_node in child_nodes: child_results[tag] = _xml_to_json([nested_node]);
\* every child is stored under the same key, so the last one stays
DecodeDict(t, tag, child_nodes, i) ==
    IF i > Len(child_nodes) THEN Ret(PyDict(<<>>), {})
    ELSE LET nested_data == XmlToJson(t, <<child_nodes[i]>>)
         IN IF IsRaised(nested_data.result) THEN nested_data
            ELSE LET rest == DecodeDict(t, tag, child_nodes, i + 1)
                 IN IF IsRaised(rest.result)
                    THEN Ret(rest.result, nested_data.marked \cup rest.marked)
                    ELSE Ret(IF Len(rest.result.items) > 0 THEN rest.result
                             ELSE PyDict(<<Item(tag, nested_data.result)>>),
                             nested_data.marked \cup rest.marked)

\* The third loop, from group g on: results as a sequence of items
DecodeGroups(t, groups, g) ==
    IF g > Len(groups) THEN Ret(PyDict(<<>>), {})
    ELSE LET tag == groups[g].tag
             value == NodeAt(t, groups[g].nodes[1])
             datatype == Get(value, "database", "str")
             one == IF groups[g].is_list THEN DecodeList(t, groups[g].nodes, 1)
                    ELSE IF datatype = "dict"
                         THEN DecodeDict(t, tag, GetChildren(t, groups[g].nodes[1]), 1)
                    ELSE IF datatype = "float" THEN Ret(FloatOfText(value), {})
                    ELSE IF datatype = "int" THEN Ret(IntOfText(value), {})
                    ELSE Ret(value.text, {})
         IN IF IsRaised(one.result) THEN one
            ELSE LET rest == DecodeGroups(t, groups, g + 1)
                 IN IF IsRaised(rest.result) THEN Ret(rest.result, one.marked \cup rest.marked)
                    ELSE Ret(PyDict(<<Item(tag, one.result)>> \o rest.result.items),
                             one.marked \cup rest.marked)

\* _xml_to_json(nodes) on the elements of t at the paths nodes.  The decoder
\* never reads list_member, so what it returns does not depend on the marks
\* it has set so far; they are collected beside the result.
XmlToJson(t, nodes) ==
    LET sorted == SortGroups(t, ActualValues(t, nodes), 1)
    IN IF IsRaised(sorted.result) THEN sorted
       ELSE LET results == DecodeGroups(t, sorted.result.elems, 1)
            IN IF IsRaised(results.result)
               THEN Ret(results.result, sorted.marked \cup results.marked)
               ELSE Ret(Collapse(results.result.items), sorted.marked \cup results.marked)

---------------------------------------------------------------------------
(* The documents the model is run on *)

SeqsUpTo(S, n) == UNION {[1..k -> S] : k \in 0..n}

Numbers == {PyInt(1), PyInt(2), PyFloat(15)}

Atoms == Numbers \cup {PyInt(10), PyInt(-3), PyStr(<<"x">>), PyStr(<<"7">>)}

Callables == {PyFunction, PyBuiltin}

KeyNames == <<"x", "y", "z", "w">>

\* {"x": v1, "y": v2, ...}
Mapping(values) == PyDict([i \in 1..Len(values) |-> Item(KeyNames[i], values[i])])

\* {key: value}
Single(key, value) == PyDict(<<Item(key, value)>>)

\* Mappings of distinct keys to atomic values
ScalarMappings == {Mapping(values) : values \in SeqsUpTo(Atoms, MaxKeys)}

\* {"a": [n1, n2, ...]} and the same under the key "root"
SequenceDocs ==
    {Single(key, PyList(elems)) : key \in {"a", "root"}, elems \in SeqsUpTo(Numbers, MaxLen)}

\* {"a": [[1, ...], ...]}: sequences of sequences
NestedSequences ==
    {PyList(outer) : outer \in SeqsUpTo({PyList(inner) : inner \in SeqsUpTo({PyInt(1)}, MaxLen)},
                                        MaxLen)}

\* {"series": {"values": [{"v": n1}, {"v": n2}, ...]}}
SeriesDoc(ns) ==
    Single("series",
           Single("values", PyList([i \in 1..Len(ns) |-> Single("v", ns[i])])))

SeriesDocs == {SeriesDoc(ns) : ns \in SeqsUpTo(Numbers, MaxLen)}

\* {"only": {"x": v1, ...}} and {"root": v}
WrappedDocs ==
    {Single("only", Mapping(values)) : values \in SeqsUpTo({PyInt(1), PyStr(<<"x">>)}, MaxKeys)}
    \cup {Single("root", v) : v \in Atoms}

\* Values that hold a function, an object with a __dict__ or an object with __slots__
FieldValues == {PyInt(1), PyFunction, PyList(<<PyInt(1), PyInt(2)>>)}

ObjectDocs ==
    {Single("o", PyObject(Mapping(values).items)) : values \in SeqsUpTo(FieldValues, MaxKeys)}
    \cup {Single("o", PySlotted(Mapping(values).items)) : values \in SeqsUpTo(FieldValues, MaxKeys)}
    \cup {Single("o", PyObject(<<Item("a", v)>>)) : v \in NestedSequences}

\* Documents with a function where a value is encoded
CallableDocs ==
    {Single("o", v) : v \in Callables}
    \cup {Single("o", PyList(<<v>>)) : v \in Callables}
    \cup {Single("o", Single("f", v)) : v \in Callables}

Documents ==
    ScalarMappings \cup SequenceDocs \cup SeriesDocs \cup WrappedDocs \cup ObjectDocs
    \cup CallableDocs
    \cup {Single("a", v) : v \in NestedSequences}

---------------------------------------------------------------------------
(* The calls: from_json, tree.xpath, _xml_to_json (query_from_json) *)

\* What tree.xpath(path) may return: elements of the tree, none twice, in
\* the order the engine defines
Selections(t) ==
    {nodes \in SeqsUpTo(Paths(t), MaxSel) :
        \A i, j \in 1..Len(nodes) : i # j => nodes[i] # nodes[j]}

Init ==
    /\ data \in Documents
    /\ numpy_available \in BOOLEAN
    /\ tree = PyNone
    /\ xpath_results = <<>>
    /\ converted_results = PyNone
    /\ pc = "start"

\* tree = from_json(data)
FromJson ==
    /\ pc = "start"
    /\ LET built == BuildTree(data)
       IN IF built.exc = "none"
          THEN /\ tree' = built.elements[1]
               /\ pc' = "built"
               /\ UNCHANGED converted_results
          ELSE /\ converted_results' = Raised(built.exc)
               /\ pc' = "failed"
               /\ UNCHANGED tree
    /\ UNCHANGED <<data, numpy_available, xpath_results>>

\* xpath_results = tree.xpath(path)
XPath ==
    /\ pc = "built"
    /\ \E nodes \in Selections(tree) : xpath_results' = nodes
    /\ pc' = "selected"
    /\ UNCHANGED <<data, numpy_available, tree, converted_results>>

\* converted_results = _xml_to_json(xpath_results)
ConvertResults ==
    /\ pc = "selected"
    /\ LET ret == XmlToJson(tree, xpath_results)
       IN /\ converted_results' = ret.result
          /\ tree' = SetListMember(tree, <<>>, ret.marked)
    /\ pc' = "done"
    /\ UNCHANGED <<data, numpy_available, xpath_results>>

Next == FromJson \/ XPath \/ ConvertResults

Spec == Init /\ [][Next]_vars

---------------------------------------------------------------------------
(* Properties *)

\* The tree from_json built for data, before any decoding
BuiltTree == BuildTree(data).elements[1]

\* The children of the root, as paths
RootChildren == GetChildren(tree, <<>>)

\* nodes holds every path of all exactly once
IsPermutationOf(nodes, all) ==
    /\ Len(nodes) = Len(all)
    /\ {nodes[i] : i \in 1..Len(nodes)} = {all[i] : i \in 1..Len(all)}

IsNumber(v) == v.kind \in {"int", "float"}

\* The value of a number in tenths, whether it is held as an int or as a float
Tenths(v) == IF v.kind = "int" THEN 10 * v.n ELSE v.n

\* result is a list of numbers, numerically equal to those of ns in order
IsNumberList(result, ns) ==
    /\ result.kind = "list"
    /\ Len(result.elems) = Len(ns)
    /\ \A i \in 1..Len(ns) :
          IsNumber(result.elems[i]) /\ Tenths(result.elems[i]) = Tenths(ns[i])

\* C1: decoding the children of toTree(m), for a mapping m of distinct keys
\* to atomic values and without the numeric-array fallback, yields m: an
\* int comes back as an int, a float as a float, a string as the same
\* string.  (A mapping of one key is compared after the collapse rule.)
C1_ScalarRoundTrip ==
    (/\ pc = "done"
     /\ ~numpy_available
     /\ data \in ScalarMappings
     /\ xpath_results = RootChildren)
    => converted_results = IF Len(data.items) = 1 THEN data.items[1].value ELSE data

\* C2: for {k: s} with s a sequence of two or more numbers, decoding the
\* k-tagged nodes given in any permutation returns the numbers of s in
\* their original order.
C2_SequenceOrderFromIndex ==
    (/\ pc = "done"
     /\ data \in SequenceDocs
     /\ Len(data.items[1].value.elems) >= 2
     /\ IsPermutationOf(xpath_results, RootChildren))
    => IsNumberList(converted_results, data.items[1].value.elems)

\* C3: when the query selects the one node "only" of {"only": m}, m a
\* mapping, the decoded value is m, keyed by the children's own tags.
C3_SingleMappingNodeUnwraps ==
    (/\ pc = "done"
     /\ data \in WrappedDocs
     /\ data.items[1].key = "only"
     /\ Len(data.items[1].value.items) >= 1
     /\ xpath_results = << <<1>> >>)
    => converted_results = data.items[1].value

\* C4: encoding a document that holds a function where a value is encoded
\* (as a top-level value, a sequence element or a mapping value) fails with
\* the conversion error, and no tree is produced.
C4_CallableIsRejected ==
    (data \in CallableDocs /\ pc # "start")
    => (pc = "failed" /\ converted_results = Raised("ValueError") /\ tree = PyNone)

\* The value data holds under key (data's keys are distinct)
ValueOf(key) ==
    data.items[CHOOSE i \in 1..Len(data.items) : data.items[i].key = key].value

\* C5: in a tree built by toTree, the children of one node that share a tag
\* are all list members with indexes that increase in child order; a child
\* of the root whose tag is its alone, and whose value is not a sequence,
\* is no list member and has no index.
C5_SiblingIndexes ==
    pc = "built" =>
        \A p \in Paths(tree) :
            LET ch == NodeAt(tree, p).children
            IN \A i \in 1..Len(ch) :
                  /\ (\E j \in 1..Len(ch) : j # i /\ ch[j].tag = ch[i].tag)
                     => /\ Get(ch[i], "list_member", "False") = "True"
                        /\ HasAttr(ch[i], "index")
                        /\ \A j \in 1..(i - 1) :
                              ch[j].tag = ch[i].tag
                              => /\ HasAttr(ch[j], "index")
                                 /\ ParseInt(ch[j].attrib["index"]).n
                                        < ParseInt(ch[i].attrib["index"]).n
                  /\ (/\ p = <<>>
                      /\ \A j \in 1..Len(ch) : j # i => ch[j].tag # ch[i].tag
                      /\ ValueOf(ch[i].tag).kind # "list")
                     => /\ Get(ch[i], "list_member", "True") = "False"
                        /\ ~HasAttr(ch[i], "index")

\* The children of the root built for the key
NodesOf(key) == {i \in 1..Len(tree.children) : tree.children[i].tag = key}

\* C6: every key of the document is encoded as at least one node, and as
\* more than one node only when its value is a sequence.
C6_AtLeastOneNode ==
    pc = "built" =>
        \A i \in 1..Len(data.items) :
            /\ Cardinality(NodesOf(data.items[i].key)) >= 1
            /\ Cardinality(NodesOf(data.items[i].key)) > 1
                   => data.items[i].value.kind = "list"

\* {"series": {"values": [{"v": 1}, {"v": 2}]}}
ScenarioDoc == SeriesDoc(<<PyInt(1), PyInt(2)>>)

\* The children of element that carry tag, in child order
ChildrenTagged(element, tag) ==
    LET at == {i \in 1..Len(element.children) : element.children[i].tag = tag}
    IN [r \in 1..Cardinality(at) |->
           element.children[CHOOSE i \in at : Cardinality({j \in at : j <= i}) = r]]

\* C7 as stated: for the scenario document the "series" child of the root
\* has a child "values" that contains two "v" nodes, with index 0 and 1.
C7_TwoVUnderOneValues ==
    (pc = "built" /\ data = ScenarioDoc)
    => \E s \in 1..Len(tree.children) :
          /\ tree.children[s].tag = "series"
          /\ \E c \in 1..Len(tree.children[s].children) :
                LET values == tree.children[s].children[c]
                    vs == ChildrenTagged(values, "v")
                IN /\ values.tag = "values"
                   /\ Len(vs) = 2
                   /\ Get(vs[1], "index", <<>>) = <<"0">>
                   /\ Get(vs[2], "index", <<>>) = <<"1">>

\* C7 amended: for {"series": {"values": [{"v": n1}, {"v": n2}, ...]}} the
\* root has the one child "series", whose children are one "values" node
\* per element, list members indexed 0, 1, ... in order; each holds one "v"
\* leaf with the element's text, which is no list member and has no index.
C7_OneVPerValues ==
    (pc = "built" /\ data \in SeriesDocs)
    => LET ns == data.items[1].value.items[1].value.elems
       IN /\ Len(tree.children) = 1
          /\ tree.children[1].tag = "series"
          /\ Len(tree.children[1].children) = Len(ns)
          /\ \A i \in 1..Len(ns) :
                LET values == tree.children[1].children[i]
                IN /\ values.tag = "values"
                   /\ Get(values, "list_member", "False") = "True"
                   /\ Get(values, "index", <<>>) = IntStr(i - 1)
                   /\ Len(values.children) = 1
                   /\ values.children[1].tag = "v"
                   /\ values.children[1].children = <<>>
                   /\ values.children[1].text = PyStr(Str(ns[i].items[1].value))
                   /\ Get(values.children[1], "list_member", "True") = "False"
                   /\ ~HasAttr(values.children[1], "index")

C7_Witness ==
    /\ pc = "built"
    /\ data = ScenarioDoc
    /\ Len(tree.children[1].children) = 2
    /\ Get(tree.children[1].children[2], "index", <<>>) = <<"1">>
    /\ ~HasAttr(tree.children[1].children[2].children[1], "index")

\* The "v" nodes of the tree of a series document, in document order
VNodes == [i \in 1..Len(tree.children[1].children) |-> <<1, i, 1>>]

\* C8: decoding the "v" leaves of {"series": {"values": [{"v": n1}, ...]}},
\* two or more, each under its own indexed "values" parent and given in any
\* order, returns their numeric values in the order of the parents' indexes.
C8_LeavesOrderedByParentIndex ==
    (/\ pc = "done"
     /\ data \in SeriesDocs
     /\ Len(data.items[1].value.items[1].value.elems) >= 2
     /\ IsPermutationOf(xpath_results, VNodes))
    => IsNumberList(converted_results,
                    [i \in 1..Len(VNodes) |->
                        data.items[1].value.items[1].value.elems[i].items[1].value])

C8_Witness ==
    /\ pc = "done"
    /\ data = ScenarioDoc
    /\ xpath_results = << <<1, 2, 1>>, <<1, 1, 1>> >>
    /\ converted_results = PyList(<<PyFloat(10), PyFloat(20)>>)

\* C9: decoding any sequence of nodes of a tree built by toTree returns a
\* value; it does not raise.
C9_DecodeNeverRaises ==
    pc = "done" => ~IsRaised(converted_results)

\* C10 as stated: after decoding, the tree is the tree the encoder built.
C10_TreeUnchanged ==
    pc = "done" => tree = BuiltTree

\* The attributes of element other than list_member
OtherAttributes(element) ==
    [a \in (DOMAIN element.attrib) \ {"list_member"} |-> element.attrib[a]]

\* C10 amended: decoding leaves every node's tag, text, number of children
\* and attributes other than list_member as the encoder built them; it sets
\* list_member to True on the selected nodes that share their tag with
\* another selected node, and changes list_member on no other node.
C10_OnlyListMemberChanges ==
    pc = "done" =>
        \A built \in {BuiltTree} :
            /\ Paths(tree) = Paths(built)
            /\ \A p \in Paths(built) :
                  LET before == NodeAt(built, p)
                      after == NodeAt(tree, p)
                  IN /\ after.tag = before.tag
                     /\ after.text = before.text
                     /\ Len(after.children) = Len(before.children)
                     /\ OtherAttributes(after) = OtherAttributes(before)
                     /\ after.attrib # before.attrib
                        => /\ after.attrib["list_member"] = "True"
                           /\ \E i, j \in 1..Len(xpath_results) :
                                 /\ i # j
                                 /\ xpath_results[i] = p
                                 /\ NodeAt(built, xpath_results[j]).tag = before.tag

C10_Witness ==
    /\ pc = "done"
    /\ data = ScenarioDoc
    /\ xpath_results = << <<1, 1, 1>>, <<1, 2, 1>> >>
    /\ tree # BuiltTree
    /\ NodeAt(BuiltTree, <<1, 2, 1>>).attrib["list_member"] = "False"
    /\ NodeAt(tree, <<1, 2, 1>>).attrib["list_member"] = "True"

=============================================================================
